---- MODULE Spec2Model ----
(***************************************************************************)
(* Model of camply/presets/dates.py: the date-preset generators of camply. *)
(*                                                                         *)
(* A date (datetime.date) is held as its ordinal; a date range is the pair  *)
(* <<start, end>>.  The system clock is the variable `today`;              *)
(* every public function of the module is one action that reads the clock  *)
(* and leaves its returned value (or the exception it raised) in `call`.   *)
(*                                                                         *)
(* A call is one step: midnight does not pass between the reads of         *)
(* date.today() that one call makes (get_summer_weekends reads it twice).  *)
(* The caller then takes the outcome, and may keep it in `prev` to compare *)
(* it with the outcome of the same call made up to MaxGap days later.      *)
(***************************************************************************)
EXTENDS Integers, Sequences, FiniteSets, TLC

VARIABLES
    today,          \* date.today(): the system clock
    DATE_PRESETS,   \* the module-level registry, in insertion order
    call,           \* the call just made: function, arguments, day, outcome
    prev            \* the outcome the caller kept from its previous call

vars == <<today, DATE_PRESETS, call, prev>>

(***************************************************************************)
(* Bounds of the model.                                                    *)
(***************************************************************************)
FirstYear == 2024       \* the clock starts on a day of FirstYear ..
NumYears == 4           \* .. FirstYear + NumYears - 1
MaxDaysAhead == 3       \* days_ahead arguments are -MaxNegDays .. MaxDaysAhead
MaxNegDays == 2
MaxGap == 2             \* days the clock advances while a result is kept

(***************************************************************************)
(* Program constants.                                                      *)
(***************************************************************************)
BOOKING_WINDOW_MONTHS == 6
DefaultNewlyAvailableDays == 7
DefaultNextReleaseDays == 14
DefaultEndMonth == 9
DefaultEndDay == 30
FRIDAY == 4

(***************************************************************************)
(* datetime.date arithmetic (proleptic Gregorian calendar).                *)
(* A date is held as its ordinal, date.toordinal(): 1 is 0001-01-01.       *)
(***************************************************************************)
IsLeap(y) == y % 4 = 0 /\ (y % 100 # 0 \/ y % 400 = 0)

DAYS_IN_MONTH == <<31, 28, 31, 30, 31, 30, 31, 31, 30, 31, 30, 31>>
DAYS_BEFORE_MONTH == <<0, 31, 59, 90, 120, 151, 181, 212, 243, 273, 304, 334>>

DaysInMonth(y, m) == IF m = 2 /\ IsLeap(y) THEN 29 ELSE DAYS_IN_MONTH[m]

DaysBeforeYear(y) ==
    LET p == y - 1 IN p * 365 + (p \div 4) - (p \div 100) + (p \div 400)

DaysBeforeMonth(y, m) ==
    DAYS_BEFORE_MONTH[m] + (IF m > 2 /\ IsLeap(y) THEN 1 ELSE 0)

\* date(y, m, d) raises ValueError unless the day exists
ValidDate(y, m, d) ==
    /\ y \in 1..9999
    /\ m \in 1..12
    /\ d >= 1
    /\ d <= DaysInMonth(y, m)

\* date(y, m, d), for a day that exists
Date(y, m, d) == DaysBeforeYear(y) + DaysBeforeMonth(y, m) + d

\* <<year, month, day>> of a date
YMD(o) ==
    LET n0   == o - 1
        n400 == n0 \div 146097
        r400 == n0 % 146097
        n100 == r400 \div 36524
        r100 == r400 % 36524
        n4   == r100 \div 1461
        r4   == r100 % 1461
        n1   == r4 \div 365
        n    == r4 % 365
        year == n400 * 400 + 1 + n100 * 100 + n4 * 4 + n1
    IN  IF n1 = 4 \/ n100 = 4
        THEN <<year - 1, 12, 31>>
        ELSE LET leap  == n1 = 3 /\ (n4 # 24 \/ n100 = 3)
                 bump(m) == IF m > 2 /\ leap THEN 1 ELSE 0
                 m0    == (n + 50) \div 32
                 p0    == DAYS_BEFORE_MONTH[m0] + bump(m0)
                 month == IF p0 > n THEN m0 - 1 ELSE m0
                 prec  == DAYS_BEFORE_MONTH[month] + bump(month)
             IN  <<year, month, n - prec + 1>>

Year(d) == YMD(d)[1]
Month(d) == YMD(d)[2]
Day(d) == YMD(d)[3]

\* date + timedelta(days=n)
AddDays(d, n) == d + n

\* date.weekday(): Monday is 0, Friday is 4
Weekday(d) == (d + 6) % 7

\* AddMonths without the clamp: a day past the end of the month runs on into
\* the next month (Aug 31 + 6 months = "Feb 31" = Mar 2 or 3)
AddMonths_day_overflow(d, k) ==
    LET ymd == YMD(d)
        m0  == ymd[2] + k
        y   == IF m0 > 12 THEN ymd[1] + 1 ELSE ymd[1]
        m   == IF m0 > 12 THEN m0 - 12 ELSE m0
    IN  Date(y, m, 1) + (ymd[3] - 1)

\* date + relativedelta(months=k), 0 <= k <= 12: the same day of the month k
\* months on, or the last day of that month when it is shorter
AddMonths(d, k) ==
    LET ymd == YMD(d)
        m0  == ymd[2] + k
        y   == IF m0 > 12 THEN ymd[1] + 1 ELSE ymd[1]
        m   == IF m0 > 12 THEN m0 - 12 ELSE m0
        dd  == IF ymd[3] < DaysInMonth(y, m) THEN ymd[3] ELSE DaysInMonth(y, m)
    IN  Date(y, m, dd)

(***************************************************************************)
(* Strings are sequences of one-character strings.                         *)
(***************************************************************************)
UPPER == <<"A", "B", "C", "D", "E", "F", "G", "H", "I", "J", "K", "L", "M", "N", "O", "P", "Q", "R", "S", "T", "U", "V", "W", "X", "Y", "Z">>
LOWER == <<"a", "b", "c", "d", "e", "f", "g", "h", "i", "j", "k", "l", "m", "n", "o", "p", "q", "r", "s", "t", "u", "v", "w", "x", "y", "z">>

IndexIn(c, alphabet) == CHOOSE i \in 1..Len(alphabet) : alphabet[i] = c

LowerOf == [c \in {UPPER[i] : i \in 1..Len(UPPER)} |-> LOWER[IndexIn(c, UPPER)]]
UpperOf == [c \in {LOWER[i] : i \in 1..Len(LOWER)} |-> UPPER[IndexIn(c, LOWER)]]

\* str.lower()
CharLower(c) == IF c \in DOMAIN LowerOf THEN LowerOf[c] ELSE c
StrLower(s) == [i \in 1..Len(s) |-> CharLower(s[i])]

\* str.upper(), used only to build the names callers pass
CharUpper(c) == IF c \in DOMAIN UpperOf THEN UpperOf[c] ELSE c

\* str.replace(old, new) for one-character old and new
StrReplace(s, old, new) == [i \in 1..Len(s) |-> IF s[i] = old THEN new ELSE s[i]]

STR_summer_weekends == <<"s", "u", "m", "m", "e", "r", "_", "w", "e", "e", "k", "e", "n", "d", "s">>
STR_newly_available == <<"n", "e", "w", "l", "y", "_", "a", "v", "a", "i", "l", "a", "b", "l", "e">>
STR_next_releases == <<"n", "e", "x", "t", "_", "r", "e", "l", "e", "a", "s", "e", "s">>
STR_nonexistent == <<"n", "o", "n", "e", "x", "i", "s", "t", "e", "n", "t">>
STR_memorial_day == <<"M", "e", "m", "o", "r", "i", "a", "l", "-", "D", "a", "y">>
STR_summerweekends == <<"s", "u", "m", "m", "e", "r", "w", "e", "e", "k", "e", "n", "d", "s">>
STR_summer_weekend == <<"s", "u", "m", "m", "e", "r", "_", "w", "e", "e", "k", "e", "n", "d">>
STR_padded == <<" ", "n", "e", "x", "t", "_", "r", "e", "l", "e", "a", "s", "e", "s">>
STR_dotted == <<"n", "e", "w", "l", "y", ".", "a", "v", "a", "i", "l", "a", "b", "l", "e">>
STR_empty == <<>>

(***************************************************************************)
(* Outcomes of a call: a returned value, or a raised exception.            *)
(***************************************************************************)
Returned(v) == [err |-> "None", value |-> v]
RaisedValueError(name, available) ==
    [err |-> "ValueError", value |-> <<>>, name |-> name, available |-> available]

\* range(n + 1) in place of range(n): one index too many
PyRange_inclusive(n) == [k \in 1..(IF n + 1 > 0 THEN n + 1 ELSE 0) |-> k - 1]

\* range(n) as the sequence 0, 1, .., n-1: empty when n <= 0
PyRange(n) == [k \in 1..(IF n > 0 THEN n ELSE 0) |-> k - 1]

(***************************************************************************)
(* The functions of dates.py; `now` is the value date.today() returns      *)
(* during the call.                                                        *)
(***************************************************************************)
\* months counted as 30 days each in place of calendar months
get_booking_window_end_fixed_days(now) == AddDays(now, 30 * BOOKING_WINDOW_MONTHS)

get_booking_window_end(now) == AddMonths(now, BOOKING_WINDOW_MONTHS)

\* the first target taken a day after the booking-window end
get_newly_available_dates_late(now, days_ahead) ==
    LET booking_end == get_booking_window_end(now)
        range == PyRange(days_ahead)
        target(i) == AddDays(booking_end, i + 1)
    IN  [k \in 1..Len(range) |-> <<target(range[k]), AddDays(target(range[k]), 1)>>]

get_newly_available_dates(now, days_ahead) ==
    LET booking_end == get_booking_window_end(now)
        range == PyRange(days_ahead)
        target(i) == AddDays(booking_end, i)
    IN  [k \in 1..Len(range) |-> <<target(range[k]), AddDays(target(range[k]), 1)>>]

get_next_release_dates(now, days_ahead) ==
    LET booking_end == get_booking_window_end(now)
        range == PyRange(days_ahead)
        target(i) == AddDays(booking_end, i)
    IN  [k \in 1..Len(range) |-> <<target(range[k]), AddDays(target(range[k]), 1)>>]

\* the next summer targeted from September on, in place of from October on
ResolveYear_from_september(now, year) ==
    IF year = <<>>
    THEN (IF Month(now) < 9 THEN Year(now) ELSE Year(now) + 1)
    ELSE year[1]

\* year is <<>> for None, <<y>> for an explicit year
ResolveYear(now, year) ==
    IF year = <<>>
    THEN (IF Month(now) < 10 THEN Year(now) ELSE Year(now) + 1)
    ELSE year[1]

\* a pointer that is a Friday skipped to the Friday after it
DaysToFriday_skip_start(current) ==
    LET days_to_friday == (FRIDAY - Weekday(current)) % 7
    IN  IF days_to_friday = 0 THEN 7 ELSE days_to_friday

\* days from `current` to the Friday the scan takes next
DaysToFriday(current) ==
    LET days_to_friday == (FRIDAY - Weekday(current)) % 7
    IN  IF days_to_friday = 0 /\ Weekday(current) # FRIDAY THEN 7 ELSE days_to_friday

\* the end bound taken as inclusive
RECURSIVE ScanWeekends_inclusive_end(_, _, _, _, _)
ScanWeekends_inclusive_end(current, end, only_bookable, booking_window_end, weekends) ==
    IF ~(current <= end)
    THEN weekends
    ELSE LET friday == AddDays(current, (FRIDAY - Weekday(current)) % 7)
             monday == AddDays(friday, 3)
             next   == IF friday <= end
                       THEN IF only_bookable
                            THEN IF friday <= booking_window_end
                                 THEN Append(weekends, <<friday, monday>>)
                                 ELSE weekends
                            ELSE Append(weekends, <<friday, monday>>)
                       ELSE weekends
         IN  ScanWeekends_inclusive_end(AddDays(friday, 7), end, only_bookable,
                                        booking_window_end, next)

\* the booking-window end taken as exclusive
RECURSIVE ScanWeekends_strict_window(_, _, _, _, _)
ScanWeekends_strict_window(current, end, only_bookable, booking_window_end, weekends) ==
    IF ~(current < end)
    THEN weekends
    ELSE LET friday == AddDays(current, (FRIDAY - Weekday(current)) % 7)
             monday == AddDays(friday, 3)
             next   == IF friday < end
                       THEN IF only_bookable
                            THEN IF friday < booking_window_end
                                 THEN Append(weekends, <<friday, monday>>)
                                 ELSE weekends
                            ELSE Append(weekends, <<friday, monday>>)
                       ELSE weekends
         IN  ScanWeekends_strict_window(AddDays(friday, 7), end, only_bookable,
                                        booking_window_end, next)

\* one pass of the while loop, then the rest of the loop
RECURSIVE ScanWeekends(_, _, _, _, _)
ScanWeekends(current, end, only_bookable, booking_window_end, weekends) ==
    IF ~(current < end)
    THEN weekends
    ELSE LET friday == AddDays(current, DaysToFriday(current))
             monday == AddDays(friday, 3)
             next   == IF friday < end
                       THEN IF only_bookable
                            THEN IF friday <= booking_window_end
                                 THEN Append(weekends, <<friday, monday>>)
                                 ELSE weekends
                            ELSE Append(weekends, <<friday, monday>>)
                       ELSE weekends
         IN  ScanWeekends(AddDays(friday, 7), end, only_bookable,
                          booking_window_end, next)

get_summer_weekends(now, year, only_bookable, end_month, end_day) ==
    LET y == ResolveYear(now, year)
        booking_window_end == get_booking_window_end(now)
    IN  IF ~ValidDate(y, 6, 1) \/ ~ValidDate(y, end_month, end_day)
        THEN [err |-> "ValueError", value |-> <<>>]
        ELSE Returned(ScanWeekends(Date(y, 6, 1), Date(y, end_month, end_day),
                                   only_bookable, booking_window_end, <<>>))

\* the replacement of spaces left out
Normalize_dash_only(name) == StrReplace(StrLower(name), "-", "_")

\* name.lower().replace("-", "_").replace(" ", "_")
Normalize(name) == StrReplace(StrReplace(StrLower(name), "-", "_"), " ", "_")

\* the registry as the module builds it; a key is a string literal of the
\* source, and Chars gives its characters
InitialPresets ==
    << [key |-> "summer_weekends", gen |-> "get_summer_weekends"],
       [key |-> "newly_available", gen |-> "get_newly_available_dates"],
       [key |-> "next_releases",   gen |-> "get_next_release_dates"] >>

Chars(key) ==
    CASE key = "summer_weekends" -> STR_summer_weekends
      [] key = "newly_available" -> STR_newly_available
      [] key = "next_releases" -> STR_next_releases

\* list(DATE_PRESETS.keys())
Keys(presets) == [i \in 1..Len(presets) |-> presets[i].key]

\* normalized in DATE_PRESETS
Registered(presets, normalized) ==
    \E i \in 1..Len(presets) : Chars(presets[i].key) = normalized

\* DATE_PRESETS[normalized]
Lookup(presets, normalized) ==
    presets[CHOOSE i \in 1..Len(presets) : Chars(presets[i].key) = normalized].gen

\* a registered generator called with no arguments, so with its own defaults
InvokeDefault(gen, now) ==
    CASE gen = "get_summer_weekends" ->
            get_summer_weekends(now, <<>>, TRUE, DefaultEndMonth, DefaultEndDay)
      [] gen = "get_newly_available_dates" ->
            Returned(get_newly_available_dates(now, DefaultNewlyAvailableDays))
      [] gen = "get_next_release_dates" ->
            Returned(get_next_release_dates(now, DefaultNextReleaseDays))

\* the error made from the normalized name in place of the name as passed
get_date_preset_reports_normalized(presets, now, name) ==
    LET normalized == Normalize(name)
    IN  IF ~Registered(presets, normalized)
        THEN [out |-> RaisedValueError(normalized, Keys(presets)), invoked |-> <<>>]
        ELSE [out |-> InvokeDefault(Lookup(presets, normalized), now),
              invoked |-> <<Lookup(presets, normalized)>>]

\* the outcome of get_date_preset(name), and the generators it ran
get_date_preset(presets, now, name) ==
    LET normalized == Normalize(name)
    IN  IF ~Registered(presets, normalized)
        THEN [out |-> RaisedValueError(name, Keys(presets)), invoked |-> <<>>]
        ELSE [out |-> InvokeDefault(Lookup(presets, normalized), now),
              invoked |-> <<Lookup(presets, normalized)>>]

list_date_presets(presets) == Keys(presets)

(***************************************************************************)
(* The arguments callers pass.                                             *)
(***************************************************************************)
LastYear == FirstYear + NumYears - 1
FirstDay == Date(FirstYear, 1, 1)
LastDay == Date(LastYear, 12, 31)
ClockDates == FirstDay..LastDay

DaysAheadArgs == (0 - MaxNegDays)..MaxDaysAhead

\* None, or one of the two summers after the clock's last year
YearArgs == {<<>>} \cup {<<y>> : y \in (LastYear + 1)..(LastYear + 2)}

\* end_month, end_day: the default, a bound in the first week of June, a bound
\* in mid-June, a bound before the scan start, and a day that does not exist
EndArgs == {<<DefaultEndMonth, DefaultEndDay>>, <<6, 2>>, <<6, 15>>, <<5, 31>>, <<6, 31>>}

\* a registered key as a caller may spell it
Spell(key, style, sep) ==
    [i \in 1..Len(key) |->
        IF key[i] = "_" THEN sep
        ELSE IF style = "upper" THEN CharUpper(key[i])
        ELSE IF style = "title" /\ (i = 1 \/ key[i - 1] = "_") THEN CharUpper(key[i])
        ELSE key[i]]

RegisteredKeys == {STR_summer_weekends, STR_newly_available, STR_next_releases}

NameArgs ==
    {Spell(k, style, sep) : k \in RegisteredKeys,
                            style \in {"lower", "upper", "title"},
                            sep \in {"_", "-", " "}}
    \cup {STR_nonexistent, STR_memorial_day, STR_summerweekends, STR_summer_weekend,
          STR_padded, STR_dotted, STR_empty}

(***************************************************************************)
(* The state machine.                                                      *)
(***************************************************************************)
NoCall == [fn |-> "none"]

Idle == call.fn = "none"

\* the caller repeats the call whose outcome it kept, or kept none
Repeats(fn, args) == prev.fn = "none" \/ (prev.fn = fn /\ prev.args = args)

Init ==
    /\ today \in ClockDates
    /\ DATE_PRESETS = InitialPresets
    /\ call = NoCall
    /\ prev = NoCall

\* midnight passes between two calls
Tick ==
    /\ Idle
    /\ today < LastDay
    /\ prev.fn # "none" => AddDays(today, 1) - prev.on <= MaxGap
    /\ today' = AddDays(today, 1)
    /\ UNCHANGED <<DATE_PRESETS, call, prev>>

CallBookingWindowEnd ==
    /\ Idle
    /\ Repeats("get_booking_window_end", <<>>)
    /\ call' = [fn |-> "get_booking_window_end", args |-> <<>>, on |-> today,
                out |-> Returned(get_booking_window_end(today)), invoked |-> <<>>]
    /\ UNCHANGED <<today, DATE_PRESETS, prev>>

CallNewlyAvailableDates ==
    \E days_ahead \in DaysAheadArgs :
        /\ Idle
        /\ Repeats("get_newly_available_dates", <<days_ahead>>)
        /\ call' = [fn |-> "get_newly_available_dates", args |-> <<days_ahead>>,
                    on |-> today,
                    out |-> Returned(get_newly_available_dates(today, days_ahead)),
                    invoked |-> <<>>]
        /\ UNCHANGED <<today, DATE_PRESETS, prev>>

CallNextReleaseDates ==
    \E days_ahead \in DaysAheadArgs :
        /\ Idle
        /\ Repeats("get_next_release_dates", <<days_ahead>>)
        /\ call' = [fn |-> "get_next_release_dates", args |-> <<days_ahead>>,
                    on |-> today,
                    out |-> Returned(get_next_release_dates(today, days_ahead)),
                    invoked |-> <<>>]
        /\ UNCHANGED <<today, DATE_PRESETS, prev>>

CallSummerWeekends ==
    \E year \in YearArgs, only_bookable \in BOOLEAN, e \in EndArgs :
        LET args == [year |-> year, only_bookable |-> only_bookable,
                     end_month |-> e[1], end_day |-> e[2]]
        IN  /\ Idle
            /\ Repeats("get_summer_weekends", args)
            /\ call' = [fn |-> "get_summer_weekends", args |-> args, on |-> today,
                        out |-> get_summer_weekends(today, year, only_bookable,
                                                    e[1], e[2]),
                        invoked |-> <<>>]
            /\ UNCHANGED <<today, DATE_PRESETS, prev>>

CallDatePreset ==
    \E name \in NameArgs :
        LET r == get_date_preset(DATE_PRESETS, today, name)
        IN  /\ Idle
            /\ Repeats("get_date_preset", <<name>>)
            /\ call' = [fn |-> "get_date_preset", args |-> <<name>>, on |-> today,
                        out |-> r.out, invoked |-> r.invoked]
            /\ UNCHANGED <<today, DATE_PRESETS, prev>>

CallListDatePresets ==
    /\ Idle
    /\ Repeats("list_date_presets", <<>>)
    /\ call' = [fn |-> "list_date_presets", args |-> <<>>, on |-> today,
                out |-> Returned(list_date_presets(DATE_PRESETS)), invoked |-> <<>>]
    /\ UNCHANGED <<today, DATE_PRESETS, prev>>

\* the caller takes the outcome and drops what it kept before
Discard ==
    /\ ~Idle
    /\ call' = NoCall
    /\ prev' = NoCall
    /\ UNCHANGED <<today, DATE_PRESETS>>

\* the functions whose outcomes are compared from one day to another
Compared == {"get_booking_window_end", "get_summer_weekends"}

\* the caller takes the outcome and keeps it to compare with its next call
Keep ==
    /\ ~Idle
    /\ call.fn \in Compared
    /\ call' = NoCall
    /\ prev' = call
    /\ UNCHANGED <<today, DATE_PRESETS>>

Next ==
    \/ Tick
    \/ CallBookingWindowEnd
    \/ CallNewlyAvailableDates
    \/ CallNextReleaseDates
    \/ CallSummerWeekends
    \/ CallDatePreset
    \/ CallListDatePresets
    \/ Discard
    \/ Keep

Spec == Init /\ [][Next]_vars

(***************************************************************************)
(* Properties.  Each is stated of the outcome held in `call` (and, where   *)
(* two days are compared, of the outcome kept in `prev`).                  *)
(***************************************************************************)
IsGenerator == call.fn \in {"get_newly_available_dates", "get_next_release_dates"}
IsSummer == call.fn = "get_summer_weekends"
IsPreset == call.fn = "get_date_preset"

\* name is key in some letter case, with each "_" written "_", "-" or " "
SpelledAs(name, key) ==
    /\ Len(name) = Len(key)
    /\ \A i \in 1..Len(key) :
          IF key[i] = "_" THEN name[i] \in {"_", "-", " "}
          ELSE name[i] = key[i] \/ name[i] = CharUpper(key[i])

\* the year whose summer a call made on day d targets
TargetYear(d, year) ==
    IF year # <<>> THEN year[1]
    ELSE IF YMD(d)[2] \in 10..12 THEN YMD(d)[1] + 1 ELSE YMD(d)[1]

\* C1: for days_ahead >= 0 both generators return exactly days_ahead pairs; the
\* i-th pair (from 0) is (windowEnd + i days, windowEnd + i + 1 days): the first
\* start is the booking-window end, starts rise by one day, each pair is one night.
C1_GeneratorPairs ==
    (IsGenerator /\ call.args[1] >= 0) =>
        LET windowEnd == get_booking_window_end(call.on)
            pairs == call.out.value
        IN  /\ call.out.err = "None"
            /\ Len(pairs) = call.args[1]
            /\ \A i \in 1..Len(pairs) :
                  /\ pairs[i][1] = windowEnd + (i - 1)
                  /\ pairs[i][2] = pairs[i][1] + 1
                  /\ i > 1 => pairs[i][1] = pairs[i - 1][1] + 1

\* C1 witness: today = 2024-01-15, get_next_release_dates(3) returns
\* [(07-15, 07-16), (07-16, 07-17), (07-17, 07-18)]
C1_Witness ==
    /\ call.fn = "get_next_release_dates"
    /\ call.on = Date(2024, 1, 15)
    /\ call.args = <<3>>
    /\ call.out.value = << <<Date(2024, 7, 15), Date(2024, 7, 16)>>,
                           <<Date(2024, 7, 16), Date(2024, 7, 17)>>,
                           <<Date(2024, 7, 17), Date(2024, 7, 18)>> >>

\* C2: get_booking_window_end() is today plus 6 calendar months: the month six
\* months later (year rolled over when needed), the same day of the month, or
\* the last day of that month when the day does not exist in it.
C2_WindowEndSixMonths ==
    call.fn = "get_booking_window_end" =>
        LET t == YMD(call.on)
            w == YMD(call.out.value)
        IN  /\ call.out.err = "None"
            /\ w[2] = ((t[2] + 5) % 12) + 1
            /\ w[1] = (IF t[2] > 6 THEN t[1] + 1 ELSE t[1])
            /\ \/ w[3] = t[3]
               \/ /\ w[3] < t[3]
                  /\ YMD(call.out.value + 1)[3] = 1
            /\ t = <<2024, 1, 31>> => w = <<2024, 7, 31>>
            /\ t = <<2024, 1, 15>> => w = <<2024, 7, 15>>
            /\ (t[2] = 8 /\ t[3] = 31) => (w[2] = 2 /\ w[3] \in {28, 29})

\* C2 witness: today = 2027-08-31 gives 2028-02-29, the last day of February
C2_Witness ==
    /\ call.fn = "get_booking_window_end"
    /\ call.on = Date(2027, 8, 31)
    /\ YMD(call.out.value) = <<2028, 2, 29>>

\* C3: every pair get_summer_weekends returns starts on a Friday, ends three
\* days later (a Monday), and June 1 of the year <= start < date(year,
\* end_month, end_day): a Friday equal to the end bound is never returned.
C3_WeekendShape ==
    IsSummer =>
        LET y == TargetYear(call.on, call.args.year)
            pairs == call.out.value
        IN  \A i \in 1..Len(pairs) :
                /\ call.out.err = "None"
                /\ Weekday(pairs[i][1]) = FRIDAY
                /\ pairs[i][2] = pairs[i][1] + 3
                /\ Weekday(pairs[i][2]) = 0
                /\ Date(y, 6, 1) <= pairs[i][1]
                /\ pairs[i][1] < Date(y, call.args.end_month, call.args.end_day)
                /\ pairs[i][1] # Date(y, call.args.end_month, call.args.end_day)

\* C3 witness: the end bound 2029-06-15 is a Friday; the Fridays before it
\* (June 1, June 8) are returned and June 15 is not
C3_Witness ==
    /\ IsSummer
    /\ call.args.year = <<2029>>
    /\ ~call.args.only_bookable
    /\ call.args.end_month = 6
    /\ call.args.end_day = 15
    /\ Weekday(Date(2029, 6, 15)) = FRIDAY
    /\ Len(call.out.value) = 2
    /\ call.out.value[2][1] = Date(2029, 6, 8)

\* C4: with only_bookable=True the result is exactly the pairs of the
\* only_bookable=False result (same arguments, same today) whose Friday is <=
\* the booking-window end; a Friday equal to the window end is kept.
C4_BookableFilter ==
    (IsSummer /\ call.args.only_bookable) =>
        LET all == get_summer_weekends(call.on, call.args.year, FALSE,
                                       call.args.end_month, call.args.end_day)
            windowEnd == get_booking_window_end(call.on)
            bookable(pair) == pair[1] <= windowEnd
        IN  /\ call.out.err = all.err
            /\ call.out.value = SelectSeq(all.value, bookable)
            /\ \A i \in 1..Len(call.out.value) : call.out.value[i][1] <= windowEnd

\* C4 witness: today = 2027-12-02, the window ends on Friday 2028-06-02, and
\* that weekend is the one returned
C4_Witness ==
    /\ IsSummer
    /\ call.args.only_bookable
    /\ call.args.year = <<>>
    /\ call.on = Date(2027, 12, 2)
    /\ get_booking_window_end(call.on) = Date(2028, 6, 2)
    /\ call.out.value = << <<Date(2028, 6, 2), Date(2028, 6, 5)>> >>

\* two calls of get_summer_weekends with only_bookable=False and the default
\* end bound, the earlier one kept (same arguments)
SummerCountCompared ==
    /\ IsSummer
    /\ prev.fn = "get_summer_weekends"
    /\ prev.args = call.args
    /\ ~call.args.only_bookable
    /\ call.args.end_month = DefaultEndMonth
    /\ call.args.end_day = DefaultEndDay

\* C5 as claimed: with only_bookable=False and the default end bound the same
\* call (year unspecified included) returns the same count on any two days.
C5_CountFixed ==
    SummerCountCompared => Len(call.out.value) = Len(prev.out.value)

\* C5 amended: the count depends on today only through the target year: two
\* calls on days with the same target year (always so for an explicit year)
\* return the same pairs, and every count is 17 or 18.
C5_CountFixedPerYear ==
    SummerCountCompared =>
        /\ Len(call.out.value) \in {17, 18}
        /\ TargetYear(prev.on, prev.args.year) = TargetYear(call.on, call.args.year)
              => call.out.value = prev.out.value

\* C5 witness: year unspecified, calls on 2027-09-29 and 2027-09-30, both 17
C5_Witness ==
    /\ SummerCountCompared
    /\ call.args.year = <<>>
    /\ prev.on = Date(2027, 9, 29)
    /\ call.on = Date(2027, 9, 30)
    /\ Len(prev.out.value) = 17
    /\ Len(call.out.value) = 17

\* what the generator registered under key returns with its own defaults
DefaultOutcome(key, now) ==
    CASE key = STR_summer_weekends ->
            get_summer_weekends(now, <<>>, TRUE, 9, 30)
      [] key = STR_newly_available ->
            Returned(get_newly_available_dates(now, 7))
      [] key = STR_next_releases ->
            Returned(get_next_release_dates(now, 14))

GeneratorOf(key) ==
    CASE key = STR_summer_weekends -> "get_summer_weekends"
      [] key = STR_newly_available -> "get_newly_available_dates"
      [] key = STR_next_releases -> "get_next_release_dates"

\* C6: get_date_preset lowercases the name and replaces every "-" and " " by
\* "_"; for a registered name it returns what the registered generator returns
\* with its own defaults, which depends on the normalized form alone, so names
\* with the same normalized form return the same on the same day;
\* "newly_available" gives 7 pairs and "next_releases" 14.
C6_PresetByNormalizedName ==
    IsPreset =>
        \A key \in RegisteredKeys :
            SpelledAs(call.args[1], key) =>
                /\ call.out = DefaultOutcome(key, call.on)
                /\ call.invoked = <<GeneratorOf(key)>>
                /\ key = STR_newly_available => Len(call.out.value) = 7
                /\ key = STR_next_releases => Len(call.out.value) = 14

\* C6 witness: "SUMMER WEEKENDS" on 2024-03-01 returns the bookable weekends
C6_Witness ==
    /\ IsPreset
    /\ call.args[1] = Spell(STR_summer_weekends, "upper", " ")
    /\ call.on = Date(2024, 3, 1)
    /\ call.out.err = "None"
    /\ Len(call.out.value) > 0
    /\ call.out = get_date_preset(DATE_PRESETS, call.on, STR_summer_weekends).out

\* C7: get_date_preset fails exactly when the normalized name is not one of
\* the three registered names; the ValueError carries the name as passed and
\* the valid names in the order summer_weekends, newly_available,
\* next_releases; no generator runs and the registry is unchanged.
C7_UnknownPreset ==
    /\ DATE_PRESETS = InitialPresets
    /\ IsPreset =>
          /\ call.out.err # "None" <=>
                ~\E key \in RegisteredKeys : SpelledAs(call.args[1], key)
          /\ call.out.err # "None" =>
                /\ call.out.err = "ValueError"
                /\ call.out.name = call.args[1]
                /\ call.out.available =
                      <<"summer_weekends", "newly_available", "next_releases">>
                /\ call.out.value = <<>>
                /\ call.invoked = <<>>

\* C7 witness: "Memorial-Day" fails, and the error names it as passed
C7_Witness ==
    /\ IsPreset
    /\ call.args[1] = STR_memorial_day
    /\ call.out.err = "ValueError"
    /\ call.out.name = STR_memorial_day
    /\ call.out.name # Normalize(STR_memorial_day)
    /\ call.invoked = <<>>

\* a call with only_bookable=False whose scan starts on a Friday and whose
\* end bound is later than the following Friday
ScanStartsOnFriday ==
    /\ IsSummer
    /\ ~call.args.only_bookable
    /\ call.out.err = "None"
    /\ Weekday(Date(TargetYear(call.on, call.args.year), 6, 1)) = FRIDAY
    /\ Date(TargetYear(call.on, call.args.year), 6, 8)
          < Date(TargetYear(call.on, call.args.year),
                 call.args.end_month, call.args.end_day)

\* C8 as claimed: when June 1 of the target year is a Friday the scan skips
\* it: the first weekend returned (only_bookable=False) starts on June 8.
C8_SkipsStartFriday ==
    ScanStartsOnFriday =>
        /\ Len(call.out.value) > 0
        /\ call.out.value[1][1] = Date(TargetYear(call.on, call.args.year), 6, 8)

\* C8 amended: when June 1 of the target year is a Friday the scan counts it:
\* the first weekend returned (only_bookable=False) starts on June 1, and the
\* second on June 8.
C8_CountsStartFriday ==
    ScanStartsOnFriday =>
        /\ Len(call.out.value) > 1
        /\ call.out.value[1][1] = Date(TargetYear(call.on, call.args.year), 6, 1)
        /\ call.out.value[2][1] = Date(TargetYear(call.on, call.args.year), 6, 8)

\* C8 witness: 2029-06-01 is a Friday and starts the first weekend of 2029
C8_Witness ==
    /\ ScanStartsOnFriday
    /\ call.args.year = <<2029>>
    /\ call.args.end_month = DefaultEndMonth
    /\ call.out.value[1] = <<Date(2029, 6, 1), Date(2029, 6, 4)>>

\* C9 as claimed: days_ahead = 0 gives an empty sequence and a negative
\* days_ahead fails with an error instead of returning an empty sequence.
C9_NegativeFails ==
    IsGenerator =>
        /\ call.args[1] = 0 => (call.out.err = "None" /\ call.out.value = <<>>)
        /\ call.args[1] < 0 => call.out.err # "None"

\* C9 amended: days_ahead = 0 gives an empty sequence, and a negative
\* days_ahead gives an empty sequence too, with no error.
C9_NonPositiveEmpty ==
    (IsGenerator /\ call.args[1] <= 0) =>
        /\ call.out.err = "None"
        /\ call.out.value = <<>>

\* C9 witness: get_newly_available_dates(-1) returned the empty sequence
C9_Witness ==
    /\ call.fn = "get_newly_available_dates"
    /\ call.args = <<-1>>
    /\ call.out.err = "None"
    /\ call.out.value = <<>>

\* C10: the booking-window end is computed from the current date on every call
\* and never decreases as today advances: of two calls, the later returns a
\* window end >= the earlier one's, month ends and year ends included.
C10_WindowEndMonotone ==
    (call.fn = "get_booking_window_end" /\ prev.fn = "get_booking_window_end") =>
        /\ prev.on <= call.on
        /\ prev.out.value <= call.out.value
        /\ YMD(call.out.value)[2] = ((YMD(call.on)[2] + 5) % 12) + 1
        /\ YMD(prev.out.value)[2] = ((YMD(prev.on)[2] + 5) % 12) + 1

\* C10 witness: calls on 2027-08-30 and 2027-09-01: the clamped 2028-02-29,
\* then 2028-03-01
C10_Witness ==
    /\ call.fn = "get_booking_window_end"
    /\ prev.fn = "get_booking_window_end"
    /\ prev.on = Date(2027, 8, 30)
    /\ call.on = Date(2027, 9, 1)
    /\ YMD(prev.out.value) = <<2028, 2, 29>>
    /\ YMD(call.out.value) = <<2028, 3, 1>>

====
